---- MODULE Spec2Model ----
(***************************************************************************)
(* A model of the SL transit MCP server: the two-tier site catalog cache   *)
(* (getSites), the site matcher (getSiteCandidates, resolveSiteMatch), the *)
(* departure mapper (parseTimeValue, mapDeparture, fetchDepartures) and    *)
(* the two registered tools (sl_find_site, sl_departures).                 *)
(*                                                                         *)
(* Text is a sequence of one-character strings, so that trimming, case     *)
(* folding and substring tests are computed and not assumed.               *)
(***************************************************************************)
EXTENDS Integers, Sequences, FiniteSets, TLC

(***************************************************************************)
(* Bounds of the model.                                                    *)
(***************************************************************************)
\* concurrent getSites() calls in flight at once
NumCalls == 2
\* clock ticks (each of one fast-tier TTL) the clock may advance
MaxTicks == 2
\* sites in a catalog handed to the matcher
MaxSites == 3
\* largest maxResults handed to getSiteCandidates (the tool's schema allows 1..20)
MaxLimit == 3
\* raw records in a departures answer
MaxDepartures == 2

(***************************************************************************)
(* Program constants.                                                      *)
(***************************************************************************)
SITES_CACHE_KEY == "sl:sites:v1"
\* 60 * 60 * 1000, the ttlMs getSites passes to setMemoryCache
MemoryTtlMs == 3600000
\* 60 * 60 * 24 * 7, the `ex` getSites passes to kvClient.set
KvTtlSeconds == 604800

TickMs == MemoryTtlMs

(***************************************************************************)
(* Text helpers.                                                           *)
(***************************************************************************)
WhiteSpace == {" ", "\t"}

RECURSIVE trimStart(_)
trimStart(s) ==
    IF s # <<>> /\ Head(s) \in WhiteSpace THEN trimStart(Tail(s)) ELSE s

RECURSIVE trimEnd(_)
trimEnd(s) ==
    IF s # <<>> /\ s[Len(s)] \in WhiteSpace
    THEN trimEnd(SubSeq(s, 1, Len(s) - 1))
    ELSE s

\* String.prototype.trim
trim(s) == trimEnd(trimStart(s))

(***************************************************************************)
(* JSON values as they arrive from upstream: a kind, and the number or the *)
(* text it carries.                                                        *)
(***************************************************************************)
JUndef == [k |-> "undefined", n |-> 0, s |-> <<>>]
JNull == [k |-> "null", n |-> 0, s |-> <<>>]
JNum(x) == [k |-> "number", n |-> x, s |-> <<>>]
JStr(t) == [k |-> "string", n |-> 0, s |-> t]
JObject == [k |-> "object", n |-> 0, s |-> <<>>]

Digits == <<"0", "1", "2", "3", "4", "5", "6", "7", "8", "9">>
IsDigit(c) == \E i \in 1..10 : Digits[i] = c
DigitVal(c) == (CHOOSE i \in 1..10 : Digits[i] = c) - 1
AllDigits(s) == s # <<>> /\ \A i \in 1..Len(s) : IsDigit(s[i])

RECURSIVE DecimalValue(_)
DecimalValue(s) ==
    IF s = <<>> THEN 0
    ELSE 10 * DecimalValue(SubSeq(s, 1, Len(s) - 1)) + DigitVal(s[Len(s)])

NaN == [finite |-> FALSE, n |-> 0]
Finite(x) == [finite |-> TRUE, n |-> x]

\* Number(text): blank text is 0, a decimal literal (with an optional sign) its
\* value, any other text NaN.
StringToNumber(s) ==
    LET t == trim(s) IN
    IF t = <<>> THEN Finite(0)
    ELSE IF AllDigits(t) THEN Finite(DecimalValue(t))
    ELSE IF Head(t) = "-" /\ AllDigits(Tail(t)) THEN Finite(0 - DecimalValue(Tail(t)))
    ELSE NaN

\* Number(value), as fetchSitesFromApi applies it to site.siteId
ToNumber(v) ==
    CASE v.k = "undefined" -> NaN
      [] v.k = "null" -> Finite(0)
      [] v.k = "number" -> Finite(v.n)
      [] OTHER -> StringToNumber(v.s)

RECURSIVE NatToString(_)
NatToString(x) ==
    IF x < 10 THEN <<Digits[x + 1]>>
    ELSE NatToString(x \div 10) \o <<Digits[(x % 10) + 1]>>

\* String(value ?? ""), as fetchSitesFromApi applies it to site.name
NameToString(v) ==
    CASE v.k \in {"undefined", "null"} -> <<>>
      [] v.k = "number" ->
            IF v.n < 0 THEN <<"-">> \o NatToString(0 - v.n) ELSE NatToString(v.n)
      [] OTHER -> v.s

isFiniteNumber(x) == x.finite

(***************************************************************************)
(* The sites endpoint's answers.  A body is a list of raw records or not a *)
(* list at all.                                                            *)
(***************************************************************************)
RawSite(id, name) == [siteId |-> id, name |-> name]

SitesBodyB ==
    << RawSite(JStr(<<"2">>), JStr(<<" ", "b", " ">>)),
       RawSite(JUndef, JStr(<<"c">>)),
       RawSite(JNum(3), JStr(<<" ">>)),
       RawSite(JStr(<<"x">>), JStr(<<"c">>)),
       RawSite(JNum(4), JUndef) >>

SitesBodyC ==
    << RawSite(JNum(0), JStr(<<"a">>)),
       RawSite(JNum(0 - 1), JStr(<<"b">>)),
       RawSite(JNull, JStr(<<"c">>)) >>

SitesResponses ==
    { [ok |-> TRUE, array |-> TRUE, data |-> b] :
          b \in {SitesBodyB, SitesBodyC} }
    \cup { [ok |-> TRUE, array |-> FALSE, data |-> <<>>],
           [ok |-> FALSE, array |-> FALSE, data |-> <<>>] }

\* the record fetchSitesFromApi maps a raw site to
mapSite(raw) ==
    [siteId |-> ToNumber(raw.siteId), name |-> trim(NameToString(raw.name))]

\* the filter fetchSitesFromApi applies to the mapped records
keepSite(site) == isFiniteNumber(site.siteId) /\ Len(site.name) > 0

\* a fetch that answers a failed request with an empty list instead of throwing
fetchSitesFromApi_emptyOnError(response) ==
    IF ~response.ok THEN [threw |-> FALSE, sites |-> <<>>]
    ELSE IF ~response.array THEN [threw |-> TRUE, sites |-> <<>>]
    ELSE LET mapped == [i \in 1..Len(response.data) |-> mapSite(response.data[i])]
             kept == SelectSeq(mapped, keepSite)
         IN [threw |-> FALSE,
             sites |-> [i \in 1..Len(kept) |->
                          [siteId |-> kept[i].siteId.n, name |-> kept[i].name]]]

\* fetchSitesFromApi, given the response: it throws or returns the site list
fetchSitesFromApi(response) ==
    IF ~response.ok THEN [threw |-> TRUE, sites |-> <<>>]
    ELSE IF ~response.array THEN [threw |-> TRUE, sites |-> <<>>]
    ELSE LET mapped == [i \in 1..Len(response.data) |-> mapSite(response.data[i])]
             kept == SelectSeq(mapped, keepSite)
         IN [threw |-> FALSE,
             sites |-> [i \in 1..Len(kept) |->
                          [siteId |-> kept[i].siteId.n, name |-> kept[i].name]]]

(***************************************************************************)
(* The site matcher.                                                       *)
(***************************************************************************)
\* String.prototype.toLowerCase and toUpperCase, character by character
LowerCase == <<"a", "b", "c", "d", "e", "f", "g", "h", "i", "j", "k", "l", "m",
               "n", "o", "p", "q", "r", "s", "t", "u", "v", "w", "x", "y", "z">>
UpperCase == <<"A", "B", "C", "D", "E", "F", "G", "H", "I", "J", "K", "L", "M",
               "N", "O", "P", "Q", "R", "S", "T", "U", "V", "W", "X", "Y", "Z">>
LowerChar(c) ==
    IF \E i \in 1..Len(UpperCase) : UpperCase[i] = c
    THEN LowerCase[CHOOSE i \in 1..Len(UpperCase) : UpperCase[i] = c]
    ELSE c
UpperChar(c) ==
    IF \E i \in 1..Len(LowerCase) : LowerCase[i] = c
    THEN UpperCase[CHOOSE i \in 1..Len(LowerCase) : LowerCase[i] = c]
    ELSE c
toLowerCase(s) == [i \in 1..Len(s) |-> LowerChar(s[i])]
toUpperCase(s) == [i \in 1..Len(s) |-> UpperChar(s[i])]

\* replace(/\s+/g, " "): every run of white space becomes one space
RECURSIVE collapseWhiteSpace(_)
collapseWhiteSpace(s) ==
    IF s = <<>> THEN <<>>
    ELSE IF Head(s) \in WhiteSpace
    THEN <<" ">> \o collapseWhiteSpace(trimStart(s))
    ELSE <<Head(s)>> \o collapseWhiteSpace(Tail(s))

normalizeText(value) == trim(collapseWhiteSpace(toLowerCase(value)))

startsWith(text, prefix) ==
    Len(prefix) <= Len(text) /\ SubSeq(text, 1, Len(prefix)) = prefix

includes(text, part) ==
    \E i \in 1..(Len(text) + 1) :
       i + Len(part) - 1 <= Len(text) /\ SubSeq(text, i, i + Len(part) - 1) = part

\* localeCompare(.., "sv") on the model's alphabet: white space sorts before
\* letters and a before b whatever the case; texts equal up to case are told
\* apart at their first difference, lower case first.  Negative, 0 or positive.
PrimaryWeight(c) ==
    CASE c = "\t" -> 1 [] c = " " -> 2 [] c \in {"a", "A"} -> 3
      [] c \in {"b", "B"} -> 4 [] OTHER -> 5
CaseWeight(c) == IF c \in {"A", "B"} THEN 1 ELSE 0

WeightAt(c, level) == IF level = 1 THEN PrimaryWeight(c) ELSE CaseWeight(c)

RECURSIVE compareWeights(_, _, _)
compareWeights(a, b, level) ==
    IF a = <<>> /\ b = <<>> THEN 0
    ELSE IF a = <<>> THEN 0 - 1
    ELSE IF b = <<>> THEN 1
    ELSE IF WeightAt(Head(a), level) # WeightAt(Head(b), level)
    THEN WeightAt(Head(a), level) - WeightAt(Head(b), level)
    ELSE compareWeights(Tail(a), Tail(b), level)

localeCompare(a, b) ==
    LET primary == compareWeights(a, b, 1)
    IN IF primary # 0 THEN primary ELSE compareWeights(a, b, 2)

\* the score the map callback gives a site
siteScore(normalizedName, normalizedQuery) ==
    IF normalizedName = normalizedQuery THEN 3
    ELSE IF startsWith(normalizedName, normalizedQuery) THEN 2
    ELSE IF includes(normalizedName, normalizedQuery) THEN 1
    ELSE 0

scoreEntry(site, normalizedQuery) ==
    LET normalizedName == normalizeText(site.name)
    IN [site |-> site, score |-> siteScore(normalizedName, normalizedQuery),
        length |-> Len(normalizedName)]

\* a comparator that prefers the longer name
compareEntries_longerFirst(a, b) ==
    IF b.score # a.score THEN b.score - a.score
    ELSE IF a.length # b.length THEN b.length - a.length
    ELSE localeCompare(a.site.name, b.site.name)

\* the sort callback
compareEntries(a, b) ==
    IF b.score # a.score THEN b.score - a.score
    ELSE IF a.length # b.length THEN a.length - b.length
    ELSE localeCompare(a.site.name, b.site.name)

\* Array.prototype.sort is stable: an entry goes behind every entry that does
\* not compare greater
RECURSIVE insertSorted(_, _)
insertSorted(sorted, x) ==
    IF sorted = <<>> THEN <<x>>
    ELSE IF compareEntries(Head(sorted), x) <= 0
    THEN <<Head(sorted)>> \o insertSorted(Tail(sorted), x)
    ELSE <<x>> \o sorted

RECURSIVE sortEntries(_)
sortEntries(entries) ==
    IF entries = <<>> THEN <<>>
    ELSE insertSorted(sortEntries(SubSeq(entries, 1, Len(entries) - 1)),
                      entries[Len(entries)])

hasScore(entry) == entry.score > 0

\* map, filter and sort: the `scored` list of both matcher functions
scoredSites(sitesArg, queryArg) ==
    LET normalizedQuery == normalizeText(queryArg)
    IN sortEntries(SelectSeq([i \in 1..Len(sitesArg) |->
                                 scoreEntry(sitesArg[i], normalizedQuery)], hasScore))

\* Array.prototype.slice(0, end)
slice0(s, end) ==
    LET stop == IF end < 0 THEN (IF Len(s) + end < 0 THEN 0 ELSE Len(s) + end)
                ELSE IF end > Len(s) THEN Len(s) ELSE end
    IN SubSeq(s, 1, stop)

getSiteCandidates(sitesArg, queryArg, maxResultsArg) ==
    LET scored == scoredSites(sitesArg, queryArg)
        cut == slice0(scored, maxResultsArg)
    IN [i \in 1..Len(cut) |-> cut[i].site]

NoMatch == [site |-> <<>>, hasCandidates |-> FALSE, candidates |-> <<>>]

\* a matcher that also reports ties of the weakest level as ambiguous
resolveSiteMatch_anyTie(sitesArg, queryArg) ==
    LET scored == scoredSites(sitesArg, queryArg) IN
    IF Len(scored) = 0 THEN NoMatch
    ELSE LET topScore == scored[1].score
             topCandidates == SelectSeq(scored, LAMBDA e : e.score = topScore)
         IN IF topScore >= 1 /\ Len(topCandidates) > 1
            THEN [site |-> <<>>, hasCandidates |-> TRUE,
                  candidates |-> [i \in 1..Len(topCandidates) |-> topCandidates[i].site]]
            ELSE [site |-> <<scored[1].site>>, hasCandidates |-> FALSE, candidates |-> <<>>]

\* resolveSiteMatch: {} is NoMatch, {site} carries one site, {candidates} a list
resolveSiteMatch(sitesArg, queryArg) ==
    LET scored == scoredSites(sitesArg, queryArg) IN
    IF Len(scored) = 0 THEN NoMatch
    ELSE LET topScore == scored[1].score
             topCandidates == SelectSeq(scored, LAMBDA e : e.score = topScore)
         IN IF topScore >= 2 /\ Len(topCandidates) > 1
            THEN [site |-> <<>>, hasCandidates |-> TRUE,
                  candidates |-> [i \in 1..Len(topCandidates) |-> topCandidates[i].site]]
            ELSE [site |-> <<scored[1].site>>, hasCandidates |-> FALSE, candidates |-> <<>>]

(***************************************************************************)
(* The matcher on its own: a catalog, a query and a limit are drawn, and   *)
(* the two functions are applied.                                          *)
(***************************************************************************)
NamePool ==
    { <<"a">>, <<"A">>, <<"a", "b">>, <<"b", "a">>,
      <<"a", " ", "b">>, <<"A", "\t", " ", "b">> }

QueryPool ==
    { <<" ", "A", " ">>, <<"b">>, <<"a", " ", " ", "b">>, <<"c">>, <<" ">> }

RECURSIVE SeqsUpTo(_, _)
SeqsUpTo(S, n) ==
    IF n = 0 THEN {<<>>}
    ELSE LET shorter == SeqsUpTo(S, n - 1)
         IN shorter \cup { Append(s, x) : s \in { q \in shorter : Len(q) = n - 1 }, x \in S }

\* a catalog: the i-th site has siteId i
Catalogs ==
    { [i \in 1..Len(names) |-> [siteId |-> i, name |-> names[i]]] :
         names \in SeqsUpTo(NamePool, MaxSites) }

(***************************************************************************)
(* The departure mapper.  Instants are counted in days since the epoch, so *)
(* that the range of a Date (8.64e15 ms either side of the epoch) is       *)
(* MaxTimeValue.                                                           *)
(***************************************************************************)
MaxTimeValue == 100000000

DateNull == [isNull |-> TRUE, valid |-> FALSE, t |-> 0]
InvalidDate == [isNull |-> FALSE, valid |-> FALSE, t |-> 0]

\* new Date(number): an Invalid Date when the number is out of range
newDate(x) ==
    IF x >= 0 - MaxTimeValue /\ x <= MaxTimeValue
    THEN [isNull |-> FALSE, valid |-> TRUE, t |-> x]
    ELSE InvalidDate

\* the one date text of the model that Date's parser understands
IsoDate == <<"2", "0", "2", "4", "-", "0", "1", "-", "0", "1">>
IsoDateValue == 19723

\* new Date(text).getTime(): the instant, or NaN
dateParse(text) == IF text = IsoDate THEN Finite(IsoDateValue) ELSE NaN

BracketOpen == <<"/", "D", "a", "t", "e", "(">>

\* trimmed.match(/\/Date\((\d+)\)\//): the places the pattern matches at, each
\* with the last digit of its group
bracketMatches(text) ==
    { <<i, j>> \in (1..Len(text)) \X (1..Len(text)) :
         /\ i + 6 <= j /\ j + 2 <= Len(text)
         /\ SubSeq(text, i, i + 5) = BracketOpen
         /\ AllDigits(SubSeq(text, i + 6, j))
         /\ text[j + 1] = ")" /\ text[j + 2] = "/" }

\* parseTimeValue: a Date (possibly an Invalid Date) or null
parseTimeValue(value) ==
    IF value.k = "number" THEN newDate(value.n)
    ELSE IF value.k # "string" THEN DateNull
    ELSE LET trimmed == trim(value.s)
             found == bracketMatches(trimmed)
         IN IF found # {}
            THEN LET m == CHOOSE x \in found : \A y \in found : x[1] <= y[1]
                 IN newDate(DecimalValue(SubSeq(trimmed, m[1] + 6, m[2])))
            ELSE IF AllDigits(trimmed) THEN newDate(DecimalValue(trimmed))
            ELSE LET ms == dateParse(trimmed)
                 IN IF ms.finite THEN newDate(ms.n) ELSE DateNull

Range(s) == { s[i] : i \in 1..Len(s) }

\* the fields of a raw departure record; "line.x" and "stopPoint.x" are the
\* fields of the objects under line and stopPoint
ExpectedFields ==
    <<"expectedDepartureTime", "expected", "realtimeDepartureTime", "realtime",
      "estimatedDepartureTime">>
ScheduledFields ==
    <<"scheduledDepartureTime", "plannedDepartureTime", "scheduled", "time">>
RawFields ==
    Range(ExpectedFields) \cup Range(ScheduledFields)
       \cup {"transportMode", "mode", "line", "line.transportMode", "line.designation",
             "line.name", "lineNumber", "destination", "direction", "destinationName",
             "stopPoint", "stopPoint.designation", "platform"}

isNullish(v) == v.k \in {"undefined", "null"}
isTruthy(v) ==
    CASE v.k \in {"undefined", "null"} -> FALSE
      [] v.k = "number" -> v.n # 0
      [] v.k = "string" -> v.s # <<>>
      [] OTHER -> TRUE

\* a ?? b ?? ... over the named fields: the first that is neither undefined nor null
RECURSIVE coalesce(_, _)
coalesce(raw, fields) ==
    IF fields = <<>> THEN JUndef
    ELSE IF ~isNullish(raw[Head(fields)]) THEN raw[Head(fields)]
    ELSE coalesce(raw, Tail(fields))

\* a || b || ... || "": the first truthy value
RECURSIVE firstTruthy(_)
firstTruthy(values) ==
    IF values = <<>> THEN JStr(<<>>)
    ELSE IF isTruthy(Head(values)) THEN Head(values)
    ELSE firstTruthy(Tail(values))

\* (raw.parent as {...})?.field
member(raw, parent, field) ==
    IF raw[parent].k = "object" THEN raw[field] ELSE JUndef

\* value.toString()
toText(v) ==
    CASE v.k = "string" -> v.s
      [] v.k = "number" ->
            IF v.n < 0 THEN <<"-">> \o NatToString(0 - v.n) ELSE NatToString(v.n)
      [] OTHER -> <<"[object Object]">>

\* timeFormatter.format: a RangeError for an Invalid Date; the clock text of a
\* valid instant is kept as the instant it renders
timeFormatter_format(date) ==
    IF date.valid THEN [threw |-> FALSE, text |-> date.t] ELSE [threw |-> TRUE, text |-> 0]

NoDeparture ==
    [time |-> 0, mode |-> <<>>, line |-> <<>>, destination |-> <<>>, platform |-> <<>>,
     timing |-> "scheduled"]

\* mapDeparture: it throws, returns null (dropped) or returns the Departure
mapDeparture(raw) ==
    LET expected == coalesce(raw, ExpectedFields)
        scheduled == coalesce(raw, ScheduledFields)
        expectedDate == parseTimeValue(expected)
        scheduledDate == parseTimeValue(scheduled)
        timeValue == IF ~expectedDate.isNull THEN expectedDate ELSE scheduledDate
        mode == firstTruthy(<<raw["transportMode"], raw["mode"],
                              member(raw, "line", "line.transportMode")>>)
        lineValue == firstTruthy(<<member(raw, "line", "line.designation"),
                                   member(raw, "line", "line.name"),
                                   raw["line"], raw["lineNumber"]>>)
        destination == firstTruthy(<<raw["destination"], raw["direction"],
                                     raw["destinationName"]>>)
        platform == firstTruthy(<<member(raw, "stopPoint", "stopPoint.designation"),
                                  raw["platform"]>>)
        \* getTime() of an Invalid Date is NaN, and NaN !== anything
        sameTime == expectedDate.valid /\ scheduledDate.valid
                       /\ expectedDate.t = scheduledDate.t
        timing == IF ~expectedDate.isNull /\ ~scheduledDate.isNull /\ ~sameTime
                  THEN "realtime" ELSE "scheduled"
        formatted == timeFormatter_format(timeValue)
    IN IF timeValue.isNull
       THEN [threw |-> FALSE, dropped |-> TRUE, departure |-> NoDeparture]
       ELSE IF formatted.threw
       THEN [threw |-> TRUE, dropped |-> FALSE, departure |-> NoDeparture]
       ELSE [threw |-> FALSE, dropped |-> FALSE,
             departure |-> [time |-> formatted.text, mode |-> toText(mode),
                            line |-> toText(lineValue),
                            destination |-> toText(destination),
                            platform |-> toText(platform), timing |-> timing]]

isKept(mapped) == ~mapped.dropped

\* fetchDepartures, given the response: it throws or returns the departures
fetchDepartures(response) ==
    IF ~response.ok \/ response.shape = "null" THEN [threw |-> TRUE, departures |-> <<>>]
    ELSE LET rawDepartures ==
                IF response.shape \in {"array", "wrapped"} THEN response.list ELSE <<>>
             mapped == [i \in 1..Len(rawDepartures) |-> mapDeparture(rawDepartures[i])]
             kept == SelectSeq(mapped, isKept)
         IN IF response.shape = "fieldNotArray" THEN [threw |-> FALSE, departures |-> <<>>]
            ELSE IF \E i \in 1..Len(mapped) : mapped[i].threw
            THEN [threw |-> TRUE, departures |-> <<>>]
            ELSE [threw |-> FALSE,
                  departures |-> [i \in 1..Len(kept) |-> kept[i].departure]]

BUS == <<"B", "U", "S">>
METRO == <<"M", "E", "T", "R", "O">>
TRAIN == <<"T", "R", "A", "I", "N">>
TRAM == <<"T", "R", "A", "M">>
SHIP == <<"S", "H", "I", "P">>
FERRY == <<"F", "E", "R", "R", "Y">>
SHIP_FERRY == <<"S", "H", "I", "P", "/", "F", "E", "R", "R", "Y">>
SUPPORTED_MODES == {BUS, METRO, TRAIN, TRAM, SHIP}

\* normalizeModesFilter: the modes to keep, and the modes it does not know
RECURSIVE normalizeModesFilter(_)
normalizeModesFilter(modes) ==
    IF modes = <<>> THEN [filterSet |-> {}, ignoredModes |-> <<>>]
    ELSE LET mode == Head(modes)
             upper == toUpperCase(mode)
             rest == normalizeModesFilter(Tail(modes))
         IN IF upper = FERRY \/ upper = SHIP_FERRY
            THEN [rest EXCEPT !.filterSet = @ \cup {SHIP}]
            ELSE IF upper \in SUPPORTED_MODES
            THEN [rest EXCEPT !.filterSet = @ \cup {upper}]
            ELSE [rest EXCEPT !.ignoredModes = <<mode>> \o @]

normalizeDepartureMode(mode) ==
    LET upper == toUpperCase(mode)
    IN IF upper = FERRY \/ upper = SHIP_FERRY THEN SHIP ELSE upper

(***************************************************************************)
(* The raw records of the bounds, each with a destination of its own.      *)
(***************************************************************************)
RawBlank == [f \in RawFields |-> JUndef]

RawIsoScheduled ==
    [RawBlank EXCEPT !["scheduledDepartureTime"] = JStr(IsoDate),
                     !["transportMode"] = JStr(<<"M", "E", "T", "R", "O">>),
                     !["line"] = JObject, !["line.designation"] = JStr(<<"1", "4">>),
                     !["stopPoint"] = JObject, !["stopPoint.designation"] = JStr(<<"2">>),
                     !["destination"] = JStr(<<"C", "i", "t", "y">>)]
RawBracketRealtime ==
    [RawBlank EXCEPT !["expected"] = JStr(<<" ", "/", "D", "a", "t", "e", "(", "5", ")", "/">>),
                     !["scheduled"] = JStr(<<"/", "D", "a", "t", "e", "(", "7", ")", "/">>),
                     !["mode"] = JStr(<<"b", "u", "s">>),
                     !["line"] = JStr(<<"4">>),
                     !["direction"] = JStr(<<"c", "i", "t", "y", "2">>)]
RawNoTime ==
    [RawBlank EXCEPT !["destination"] = JStr(<<"n", "o", "n", "e">>)]
RawGarbageTime ==
    [RawBlank EXCEPT !["time"] = JStr(<<"x">>),
                     !["expected"] = JObject,
                     !["destination"] = JStr(<<"g", "a", "r", "b">>)]
RawNumberOutOfRange ==
    [RawBlank EXCEPT !["expectedDepartureTime"] = JNum(999999999),
                     !["time"] = JNum(7),
                     !["destination"] = JStr(<<"b", "i", "g">>)]
RawDigitsOutOfRange ==
    [RawBlank EXCEPT !["time"] = JStr(<<"9", "9", "9", "9", "9", "9", "9", "9", "9">>),
                     !["destination"] = JStr(<<"d", "i", "g">>)]
RawShadowedExpected ==
    [RawBlank EXCEPT !["expectedDepartureTime"] = JStr(<<"x">>),
                     !["expected"] = JNum(5),
                     !["destination"] = JStr(<<"s", "h", "a", "d">>)]
RawEqualTimes ==
    [RawBlank EXCEPT !["realtime"] = JNum(7), !["time"] = JStr(<<"7">>),
                     !["line"] = JObject, !["line.transportMode"] = JStr(<<"F", "e", "r", "r", "y">>),
                     !["line.name"] = JStr(<<"8", "0">>),
                     !["destinationName"] = JStr(<<"q", "u", "a", "y">>)]

RawPool ==
    { RawIsoScheduled, RawBracketRealtime, RawNoTime, RawGarbageTime,
      RawNumberOutOfRange, RawDigitsOutOfRange, RawShadowedExpected, RawEqualTimes }

DepartureResponses ==
    { [ok |-> TRUE, shape |-> sh, list |-> l] :
         sh \in {"array", "wrapped"}, l \in SeqsUpTo(RawPool, MaxDepartures) }
    \cup { [ok |-> TRUE, shape |-> sh, list |-> <<>>] : sh \in {"noField", "fieldNotArray"} }
    \cup { [ok |-> TRUE, shape |-> "null", list |-> <<>>],
           [ok |-> FALSE, shape |-> "array", list |-> <<>>] }

(***************************************************************************)
(* State.                                                                  *)
(***************************************************************************)
VARIABLES
    memoryCache,   \* the Map: cache key -> [value, expiresAt]
    now,           \* Date.now()
    env,           \* process.env: which of the KV variables are set
    kvStore,       \* what the durable store holds under SITES_CACHE_KEY
    calls,         \* per getSites() call: its position, its locals, what it saw
    sites,         \* matcher: the catalog handed in
    query,         \* matcher: the query handed in
    maxResults,    \* matcher: the limit handed in
    matches,       \* matcher: what getSiteCandidates returned
    match,         \* matcher: what resolveSiteMatch returned
    depResponse,   \* departures: the answer of the departures endpoint
    depResult,     \* departures: what fetchDepartures made of it
    request        \* tools: the tool call being served, and how it ended

cacheVars == <<memoryCache, now, env, kvStore, calls>>
matchVars == <<sites, query, maxResults, matches, match>>
depVars == <<depResponse, depResult>>

Calls == 1..NumCalls

EmptyMap == [k \in {} |-> 0]

EnvChoices ==
    { [KV_REST_API_URL |-> FALSE, KV_REST_API_TOKEN |-> TRUE, KV_REST_API_READ_ONLY_TOKEN |-> FALSE],
      [KV_REST_API_URL |-> TRUE, KV_REST_API_TOKEN |-> FALSE, KV_REST_API_READ_ONLY_TOKEN |-> FALSE],
      [KV_REST_API_URL |-> TRUE, KV_REST_API_TOKEN |-> FALSE, KV_REST_API_READ_ONLY_TOKEN |-> TRUE] }

hasKvConfig(e) ==
    e.KV_REST_API_URL /\ (e.KV_REST_API_TOKEN \/ e.KV_REST_API_READ_ONLY_TOKEN)

\* what the durable store may hold when the process starts: nothing, a list an
\* earlier process wrote, or something that is not a list
KvSeedList == << [siteId |-> 2, name |-> <<"b">>] >>
KvAbsent == [present |-> FALSE, array |-> FALSE, value |-> <<>>]
KvList(v) == [present |-> TRUE, array |-> TRUE, value |-> v]
KvNotAList == [present |-> TRUE, array |-> FALSE, value |-> <<>>]

\* the answers kvClient.get can give: the stored value, or a failure
KvGetReplies(store) ==
    { [failed |-> FALSE, got |-> store], [failed |-> TRUE, got |-> KvAbsent] }

IdleCall ==
    [pc |-> "idle", kvClient |-> FALSE, sites |-> <<>>, log |-> <<>>,
     fresh |-> FALSE, kvSaw |-> "none", kvWrote |-> "none", resp |-> "none",
     expiresAt |-> 0, stale |-> FALSE]

\* the state after the module is loaded: an empty Map, no call yet
CacheInit ==
    /\ memoryCache = EmptyMap
    /\ now = 0
    /\ env \in EnvChoices
    /\ kvStore \in {KvAbsent, KvList(KvSeedList), KvNotAList}
    /\ calls = [c \in Calls |-> IdleCall]

NotCalled == [called |-> FALSE, value |-> <<>>]
Returned(v) == [called |-> TRUE, value |-> v]

MatchIdle ==
    /\ sites = <<>>
    /\ query = <<>>
    /\ maxResults = 0
    /\ matches = NotCalled
    /\ match = NotCalled

NoResponse == [ok |-> FALSE, shape |-> "none", list |-> <<>>]
NotFetched == [called |-> FALSE, threw |-> FALSE, departures |-> <<>>]

DepIdle ==
    /\ depResponse = NoResponse
    /\ depResult = NotFetched

(***************************************************************************)
(* The fast tier.                                                          *)
(***************************************************************************)
\* a lookup whose expiry test is inverted: a live entry is taken for expired
getMemoryCache_invertedExpiry(cache, key, clock) ==
    IF key \notin DOMAIN cache
    THEN [hit |-> FALSE, value |-> <<>>, cache |-> cache]
    ELSE IF clock < cache[key].expiresAt
    THEN [hit |-> FALSE, value |-> <<>>,
          cache |-> [k \in DOMAIN cache \ {key} |-> cache[k]]]
    ELSE [hit |-> TRUE, value |-> cache[key].value, cache |-> cache]

\* a lookup that already expires the entry at its expiry instant (>= for >)
getMemoryCache_expiresAtInstant(cache, key, clock) ==
    IF key \notin DOMAIN cache
    THEN [hit |-> FALSE, value |-> <<>>, cache |-> cache]
    ELSE IF clock >= cache[key].expiresAt
    THEN [hit |-> FALSE, value |-> <<>>,
          cache |-> [k \in DOMAIN cache \ {key} |-> cache[k]]]
    ELSE [hit |-> TRUE, value |-> cache[key].value, cache |-> cache]

\* getMemoryCache: the value (or a miss) and the Map it leaves behind
getMemoryCache(cache, key, clock) ==
    IF key \notin DOMAIN cache
    THEN [hit |-> FALSE, value |-> <<>>, cache |-> cache]
    ELSE IF clock > cache[key].expiresAt
    THEN [hit |-> FALSE, value |-> <<>>,
          cache |-> [k \in DOMAIN cache \ {key} |-> cache[k]]]
    ELSE [hit |-> TRUE, value |-> cache[key].value, cache |-> cache]

\* a write that leaves an entry already present alone (first write wins)
setMemoryCache_keepExisting(cache, key, value, ttlMs, clock) ==
    IF key \in DOMAIN cache THEN cache
    ELSE [k \in DOMAIN cache \cup {key} |->
            IF k = key THEN [value |-> value, expiresAt |-> clock + ttlMs] ELSE cache[k]]

\* setMemoryCache: the Map with the entry written
setMemoryCache(cache, key, value, ttlMs, clock) ==
    [k \in DOMAIN cache \cup {key} |->
        IF k = key THEN [value |-> value, expiresAt |-> clock + ttlMs] ELSE cache[k]]

\* getKv: the client, or null when the store is not configured
getKv(e) == hasKvConfig(e)

\* a durable read whose failure is not caught
kvGetOutcome_rethrow(reply) ==
    IF reply.failed THEN "throw"
    ELSE IF reply.got.present /\ reply.got.array THEN "hit"
    ELSE "fallthrough"

\* the try/catch around kvClient.get: a usable list is a hit, anything else
\* (nothing stored, not a list, a failed read) falls through to the fetch
kvGetOutcome(reply) ==
    IF reply.failed THEN "fallthrough"
    ELSE IF reply.got.present /\ reply.got.array THEN "hit"
    ELSE "fallthrough"

\* the try/catch around kvClient.set: a failed write is only warned about
kvSetOutcome(ok) == "return"

(***************************************************************************)
(* History bookkeeping.                                                    *)
(***************************************************************************)
Fresh == SITES_CACHE_KEY \in DOMAIN memoryCache
            /\ now <= memoryCache[SITES_CACHE_KEY].expiresAt

\* every other call that already holds its list is marked: the fast tier has
\* been written again since that call read or wrote it
MarkStale(cs, writer) ==
    [d \in Calls |->
        IF d # writer /\ cs[d].pc \in {"kvSet", "done"}
        THEN [cs[d] EXCEPT !.stale = TRUE]
        ELSE cs[d]]

(***************************************************************************)
(* getSites, one action per stretch between two awaits.                    *)
(***************************************************************************)
\* entry to the first await: the fast-tier lookup
getSites_start(c) ==
    /\ calls[c].pc \in {"idle", "done", "failed"}
    /\ LET r == getMemoryCache(memoryCache, SITES_CACHE_KEY, now)
           base == [IdleCall EXCEPT !.log = <<"memory">>, !.fresh = Fresh]
       IN /\ memoryCache' = r.cache
          /\ calls' = [calls EXCEPT ![c] =
                IF r.hit
                THEN [base EXCEPT !.pc = "done", !.sites = r.value,
                                  !.expiresAt = memoryCache[SITES_CACHE_KEY].expiresAt]
                ELSE [base EXCEPT !.pc = "getKv"]]
    /\ UNCHANGED <<now, env, kvStore>>

\* await getKv() resumes: the durable read is issued, or the upstream fetch
getSites_getKv(c) ==
    /\ calls[c].pc = "getKv"
    /\ LET kvClient == getKv(env) IN
       calls' = [calls EXCEPT ![c] =
          IF kvClient
          THEN [@ EXCEPT !.pc = "kvGet", !.kvClient = TRUE, !.log = @ \o <<"kvGet">>]
          ELSE [@ EXCEPT !.pc = "fetch", !.kvClient = FALSE, !.kvSaw = "off",
                         !.log = @ \o <<"api">>]]
    /\ UNCHANGED <<memoryCache, now, env, kvStore>>

\* await kvClient.get resumes
getSites_kvGet(c) ==
    /\ calls[c].pc = "kvGet"
    /\ \E reply \in KvGetReplies(kvStore) :
          LET outcome == kvGetOutcome(reply)
              saw == IF reply.failed THEN "error"
                     ELSE IF reply.got.present /\ reply.got.array THEN "hit"
                     ELSE "unusable"
          IN CASE outcome = "hit" ->
                    /\ memoryCache' = setMemoryCache(memoryCache, SITES_CACHE_KEY,
                                                     reply.got.value, MemoryTtlMs, now)
                    /\ calls' = [MarkStale(calls, c) EXCEPT ![c] =
                          [@ EXCEPT !.pc = "done", !.sites = reply.got.value,
                                    !.kvSaw = saw, !.expiresAt = now + MemoryTtlMs]]
               [] outcome = "fallthrough" ->
                    /\ calls' = [calls EXCEPT ![c] =
                          [@ EXCEPT !.pc = "fetch", !.kvSaw = saw, !.log = @ \o <<"api">>]]
                    /\ UNCHANGED memoryCache
               [] OTHER ->
                    /\ calls' = [calls EXCEPT ![c] = [@ EXCEPT !.pc = "failed", !.kvSaw = saw]]
                    /\ UNCHANGED memoryCache
    /\ UNCHANGED <<now, env, kvStore>>

\* await fetchSitesFromApi() resumes
getSites_fetch(c) ==
    /\ calls[c].pc = "fetch"
    /\ \E response \in SitesResponses :
          LET r == fetchSitesFromApi(response)
              kind == IF ~response.ok THEN "notOk"
                      ELSE IF ~response.array THEN "notArray" ELSE "ok"
          IN
          IF r.threw
          THEN /\ calls' = [calls EXCEPT ![c] =
                     [@ EXCEPT !.pc = "failed", !.kvSaw = "none", !.resp = kind]]
               /\ UNCHANGED memoryCache
          ELSE /\ memoryCache' = setMemoryCache(memoryCache, SITES_CACHE_KEY,
                                                r.sites, MemoryTtlMs, now)
               /\ calls' = [MarkStale(calls, c) EXCEPT ![c] =
                     IF calls[c].kvClient
                     THEN [@ EXCEPT !.pc = "kvSet", !.sites = r.sites, !.kvSaw = "none",
                                    !.resp = kind,
                                    !.expiresAt = now + MemoryTtlMs,
                                    !.log = @ \o <<"kvSet">>]
                     ELSE [@ EXCEPT !.pc = "done", !.sites = r.sites, !.kvSaw = "none",
                                    !.resp = kind,
                                    !.expiresAt = now + MemoryTtlMs]]
    /\ UNCHANGED <<now, env, kvStore>>

\* await kvClient.set resumes: the write went through or failed
getSites_kvSet(c) ==
    /\ calls[c].pc = "kvSet"
    /\ \E ok \in BOOLEAN :
          /\ kvStore' = IF ok THEN KvList(calls[c].sites) ELSE kvStore
          /\ calls' = [calls EXCEPT ![c] =
                [@ EXCEPT !.pc = IF kvSetOutcome(ok) = "return" THEN "done" ELSE "failed",
                          !.kvWrote = IF ok THEN "ok" ELSE "error"]]
    /\ UNCHANGED <<memoryCache, now, env>>

(***************************************************************************)
(* The environment: the clock, and the durable store dropping its entry    *)
(* (its own expiry after KvTtlSeconds, or an eviction).                    *)
(***************************************************************************)
Tick ==
    /\ now < MaxTicks * TickMs
    /\ now' = now + TickMs
    /\ UNCHANGED <<memoryCache, env, kvStore, calls>>

KvExpire ==
    /\ kvStore.present
    /\ kvStore' = KvAbsent
    /\ UNCHANGED <<memoryCache, now, env, calls>>

(***************************************************************************)
(* The tools of the MCP route.  Parameters are JSON values; a key that is  *)
(* not sent is undefined.  All numbers of the model are integers.          *)
(***************************************************************************)
NoModes == [given |-> FALSE, list |-> <<>>]
ModesOf(l) == [given |-> TRUE, list |-> l]

BlankParams ==
    [query |-> JUndef, station |-> JUndef, siteId |-> JUndef, id |-> JUndef,
     maxResults |-> JUndef, modes |-> NoModes, directionContains |-> JUndef]

\* z.number().int().min(lo).max(hi).optional()
optionalIntBetween(v, lo, hi) ==
    v.k = "undefined" \/ (v.k = "number" /\ lo <= v.n /\ v.n <= hi)

\* z.string().min(1)
nonEmptyString(v) == v.k = "string" /\ Len(v.s) >= 1

\* the input schema of sl_find_site: keys it does not name are stripped
sl_find_site_inputSchema(params) ==
    [success |-> nonEmptyString(params.query)
                    /\ optionalIntBetween(params.maxResults, 1, 20),
     data |-> [BlankParams EXCEPT !.query = params.query,
                                  !.maxResults = params.maxResults]]

\* the input schema of sl_departures: strict, so a key it does not name is an
\* error; siteId is required and coerced with Number()
sl_departures_inputSchema(params) ==
    LET coerced == ToNumber(params.siteId)
    IN [success |-> /\ params.query.k = "undefined"
                    /\ params.station.k = "undefined"
                    /\ params.id.k = "undefined"
                    /\ params.siteId.k # "undefined"
                    /\ isFiniteNumber(coerced)
                    /\ optionalIntBetween(params.maxResults, 1, 30)
                    /\ (params.directionContains.k = "undefined"
                           \/ nonEmptyString(params.directionContains)),
        data |-> [BlankParams EXCEPT !.siteId = JNum(coerced.n),
                                     !.maxResults = params.maxResults,
                                     !.modes = params.modes,
                                     !.directionContains = params.directionContains]]

\* withAuth: what the route answers before the handler is reached
withAuth(apiKeySet, tokenMatches, headerMatches) ==
    IF ~apiKeySet THEN "500"
    ELSE IF ~tokenMatches /\ ~headerMatches THEN "401"
    ELSE "handler"

\* no tool call has been received yet
IdleRequest == [pc |-> "idle"]

\* a tool call as the route receives it
NewRequest ==
    [pc |-> "received", tool |-> "none", params |-> BlankParams, data |-> BlankParams,
     outcome |-> "none", resolvedSiteId |-> JUndef, resolvedSiteName |-> <<>>,
     loadedCatalog |-> FALSE, ranMatch |-> FALSE, fetchedFor |-> <<>>,
     sitesListed |-> <<>>, departuresListed |-> <<>>, ignoredModes |-> <<>>]

ToolIdle == request = IdleRequest

Ended(r, how) == [r EXCEPT !.pc = "done", !.outcome = how]

\* the calls of the bounds
FindSiteCalls ==
    { [BlankParams EXCEPT !.query = q, !.maxResults = m] :
         q \in {JUndef, JStr(<<>>), JStr(<<"b">>), JStr(<<" ", "A", " ">>), JStr(<<"c">>)},
         m \in {JUndef, JNum(0), JNum(1)} }

\* every way of naming the site, and every filter on a call that names it by siteId
DeparturesCalls ==
    { [BlankParams EXCEPT !.station = st, !.siteId = sid, !.id = other] :
         st \in {JUndef, JStr(<<"b">>), JStr(<<"a">>)},
         sid \in {JUndef, JNull, JNum(2), JStr(<<"2">>), JStr(<<"x">>)},
         other \in {JUndef, JNum(2)} }
    \cup
    { [BlankParams EXCEPT !.siteId = JNum(2), !.maxResults = m, !.modes = md,
                          !.directionContains = dc] :
         m \in {JUndef, JNum(1), JNum(31)},
         md \in {NoModes, ModesOf(<<<<"m", "e", "t", "r", "o">>>>),
                 ModesOf(<<<<"x", "y", "z">>, <<"F", "e", "r", "r", "y">>>>)},
         dc \in {JUndef, JStr(<<"C", "I", "T", "Y">>)} }

ToolDepartureResponses ==
    { [ok |-> TRUE, shape |-> "array", list |-> <<RawIsoScheduled, RawBracketRealtime>>],
      [ok |-> TRUE, shape |-> "wrapped", list |-> <<RawEqualTimes, RawNoTime>>],
      [ok |-> TRUE, shape |-> "array", list |-> <<RawNumberOutOfRange>>],
      [ok |-> FALSE, shape |-> "array", list |-> <<>>] }

\* a request that withAuth answers itself
withAuth_reject ==
    /\ request.pc \in {"idle", "done"}
    /\ \E apiKeySet \in BOOLEAN, tokenMatches \in BOOLEAN, headerMatches \in BOOLEAN :
          LET answer == withAuth(apiKeySet, tokenMatches, headerMatches)
          IN /\ answer # "handler"
             /\ request' = Ended(NewRequest, answer)
    /\ UNCHANGED <<cacheVars, matchVars, depVars>>

\* sl_find_site up to its await of getSites()
sl_find_site_call ==
    /\ request.pc \in {"idle", "done"}
    /\ \E params \in FindSiteCalls :
          LET parsed == sl_find_site_inputSchema(params)
              req == [NewRequest EXCEPT !.tool = "sl_find_site", !.params = params]
          IN IF ~parsed.success
             THEN /\ request' = Ended(req, "invalid_params")
                  /\ UNCHANGED cacheVars
             ELSE /\ getSites_start(1)
                  /\ request' = [req EXCEPT !.pc = "sites", !.data = parsed.data,
                                            !.loadedCatalog = TRUE]
    /\ UNCHANGED <<matchVars, depVars>>

\* sl_departures up to its first await
sl_departures_call ==
    /\ request.pc \in {"idle", "done"}
    /\ \E params \in DeparturesCalls :
          LET parsed == sl_departures_inputSchema(params)
              data == parsed.data
              req == [NewRequest EXCEPT !.tool = "sl_departures", !.params = params]
              resolvedSiteId == IF ~isNullish(data.siteId) THEN data.siteId ELSE data.id
              started == [req EXCEPT !.data = data, !.resolvedSiteId = resolvedSiteId]
          IN IF ~parsed.success
             THEN /\ request' = Ended(req, "invalid_params")
                  /\ UNCHANGED cacheVars
             ELSE IF ~isTruthy(resolvedSiteId) /\ isTruthy(data.station)
             THEN /\ getSites_start(1)
                  /\ request' = [started EXCEPT !.pc = "sites", !.loadedCatalog = TRUE]
             ELSE IF ~isTruthy(resolvedSiteId)
             THEN /\ request' = Ended(started, "no_site_id")
                  /\ UNCHANGED cacheVars
             ELSE /\ request' = [started EXCEPT !.pc = "departures",
                                                !.fetchedFor = <<resolvedSiteId>>]
                  /\ UNCHANGED cacheVars
    /\ UNCHANGED <<matchVars, depVars>>

\* the handler waits while its getSites() call runs
await_getSites ==
    /\ request.pc = "sites"
    /\ \/ getSites_getKv(1)
       \/ getSites_kvGet(1)
       \/ getSites_fetch(1)
       \/ getSites_kvSet(1)
    /\ UNCHANGED <<request, matchVars, depVars>>

\* await getSites() resumes in the handler that made the call
getSites_resumes ==
    /\ request.pc = "sites"
    /\ calls[1].pc \in {"done", "failed"}
    /\ LET catalog == calls[1].sites
           data == request.data
       IN IF calls[1].pc = "failed"
          THEN request' = Ended(request, "failed")
          ELSE IF request.tool = "sl_find_site"
          THEN LET limit == IF isNullish(data.maxResults) THEN 5 ELSE data.maxResults.n
                   found == getSiteCandidates(catalog, data.query.s, limit)
               IN request' = IF Len(found) = 0
                             THEN Ended(request, "no_sites")
                             ELSE Ended([request EXCEPT !.sitesListed = found], "found")
          ELSE LET matched == resolveSiteMatch(catalog, data.station.s)
                   ran == [request EXCEPT !.ranMatch = TRUE]
               IN IF matched.hasCandidates
                  THEN request' = Ended([ran EXCEPT !.sitesListed =
                                             slice0(matched.candidates, 5)], "ambiguous")
                  ELSE IF matched.site = <<>>
                  THEN request' = Ended(ran, "not_found")
                  ELSE LET site == matched.site[1]
                           named == [ran EXCEPT !.resolvedSiteId = JNum(site.siteId),
                                                !.resolvedSiteName = site.name]
                       IN request' = IF site.siteId = 0
                                     THEN Ended(named, "no_site_id")
                                     ELSE [named EXCEPT !.pc = "departures",
                                              !.fetchedFor = <<JNum(site.siteId)>>]
    /\ UNCHANGED <<cacheVars, matchVars, depVars>>

\* await fetchDepartures() resumes
fetchDepartures_resumes ==
    /\ request.pc = "departures"
    /\ \E answer \in ToolDepartureResponses :
          LET r == fetchDepartures(answer)
              data == request.data
              limit == IF isNullish(data.maxResults) THEN 8 ELSE data.maxResults.n
              filterModes ==
                  normalizeModesFilter(IF data.modes.given THEN data.modes.list ELSE <<>>)
              byMode == SelectSeq(r.departures,
                           LAMBDA d : filterModes.filterSet = {}
                                         \/ normalizeDepartureMode(d.mode)
                                               \in filterModes.filterSet)
              byDirection == SelectSeq(byMode,
                           LAMBDA d : ~isTruthy(data.directionContains)
                                         \/ includes(toLowerCase(d.destination),
                                                     toLowerCase(data.directionContains.s)))
              filtered == slice0(byDirection, limit)
          IN request' =
                IF r.threw THEN Ended(request, "failed")
                ELSE IF Len(filtered) = 0 THEN Ended(request, "no_departures")
                ELSE Ended([request EXCEPT !.departuresListed = filtered,
                                           !.ignoredModes = filterModes.ignoredModes],
                           "departures")
    /\ UNCHANGED <<cacheVars, matchVars, depVars>>

vars ==
    <<memoryCache, now, env, kvStore, calls, sites, query, maxResults, matches, match,
      depResponse, depResult, request>>

(***************************************************************************)
(* Spec: concurrent getSites() calls over the two cache tiers.             *)
(***************************************************************************)
Init == CacheInit /\ MatchIdle /\ DepIdle /\ ToolIdle

Next ==
    \/ \E c \in Calls : getSites_start(c) /\ UNCHANGED <<matchVars, depVars, request>>
    \/ \E c \in Calls : getSites_getKv(c) /\ UNCHANGED <<matchVars, depVars, request>>
    \/ \E c \in Calls : getSites_kvGet(c) /\ UNCHANGED <<matchVars, depVars, request>>
    \/ \E c \in Calls : getSites_fetch(c) /\ UNCHANGED <<matchVars, depVars, request>>
    \/ \E c \in Calls : getSites_kvSet(c) /\ UNCHANGED <<matchVars, depVars, request>>
    \/ Tick /\ UNCHANGED <<matchVars, depVars, request>>
    \/ KvExpire /\ UNCHANGED <<matchVars, depVars, request>>

Spec == Init /\ [][Next]_vars

(***************************************************************************)
(* MatchSpec: the matcher applied to every catalog, query and limit of the *)
(* bounds.                                                                 *)
(***************************************************************************)
CacheIdle ==
    /\ memoryCache = EmptyMap
    /\ now = 0
    /\ env = [KV_REST_API_URL |-> FALSE, KV_REST_API_TOKEN |-> FALSE,
              KV_REST_API_READ_ONLY_TOKEN |-> FALSE]
    /\ kvStore = KvAbsent
    /\ calls = [c \in Calls |-> IdleCall]

MatchInit ==
    /\ CacheIdle /\ DepIdle /\ ToolIdle
    /\ sites \in Catalogs
    /\ query \in QueryPool
    /\ maxResults \in 1..MaxLimit
    /\ matches = NotCalled
    /\ match = NotCalled

CallGetSiteCandidates ==
    /\ ~matches.called
    /\ matches' = Returned(getSiteCandidates(sites, query, maxResults))
    /\ UNCHANGED <<sites, query, maxResults, match>>
    /\ UNCHANGED <<cacheVars, depVars, request>>

CallResolveSiteMatch ==
    /\ ~match.called
    /\ match' = Returned(resolveSiteMatch(sites, query))
    /\ UNCHANGED <<sites, query, maxResults, matches>>
    /\ UNCHANGED <<cacheVars, depVars, request>>

MatchNext ==
    \/ CallGetSiteCandidates
    \/ CallResolveSiteMatch

MatchSpec == MatchInit /\ [][MatchNext]_vars

(***************************************************************************)
(* DepSpec: fetchDepartures applied to every answer of the bounds.         *)
(***************************************************************************)
DepInit ==
    /\ CacheIdle /\ MatchIdle /\ ToolIdle
    /\ depResponse \in DepartureResponses
    /\ depResult = NotFetched

CallFetchDepartures ==
    /\ ~depResult.called
    /\ LET r == fetchDepartures(depResponse)
       IN depResult' = [called |-> TRUE, threw |-> r.threw, departures |-> r.departures]
    /\ UNCHANGED <<depResponse, cacheVars, matchVars, request>>

DepNext == CallFetchDepartures

DepSpec == DepInit /\ [][DepNext]_vars

(***************************************************************************)
(* RouteSpec: the route serving one tool call after another.               *)
(***************************************************************************)
RouteInit == CacheInit /\ MatchIdle /\ DepIdle /\ ToolIdle

RouteNext ==
    \/ withAuth_reject
    \/ sl_find_site_call
    \/ sl_departures_call
    \/ await_getSites
    \/ getSites_resumes
    \/ fetchDepartures_resumes

RouteSpec == RouteInit /\ [][RouteNext]_vars

(***************************************************************************)
(* Properties of getSites.                                                 *)
(***************************************************************************)
\* the upstream requests a call has issued
Reqs(call) == Cardinality({ i \in 1..Len(call.log) : call.log[i] = "api" })

IsPrefix(s, t) == Len(s) <= Len(t) /\ \A i \in 1..Len(s) : s[i] = t[i]

\* the lists a success response of the sites endpoint can turn into
UpstreamLists ==
    { LET kept == SelectSeq([i \in 1..Len(r.data) |-> mapSite(r.data[i])], keepSite)
      IN [i \in 1..Len(kept) |-> [siteId |-> kept[i].siteId.n, name |-> kept[i].name]] :
        r \in { x \in SitesResponses : x.ok /\ x.array } }

C1_TierOrder ==
    \A c \in Calls :
       /\ IF hasKvConfig(env)
          THEN IsPrefix(calls[c].log, <<"memory", "kvGet", "api", "kvSet">>)
          ELSE IsPrefix(calls[c].log, <<"memory", "api">>)
       /\ Reqs(calls[c]) > 0 => ~calls[c].fresh
       /\ calls[c].pc = "fetch" => calls[c].kvSaw \in {"off", "unusable", "error"}
       /\ calls[c].kvSaw = "off" => ~hasKvConfig(env)

C1_DurableHit ==
    \A c \in Calls :
       (getSites_kvGet(c) /\ calls'[c].pc = "done")
          => /\ kvStore.present /\ kvStore.array
             /\ calls'[c].sites = kvStore.value
             /\ memoryCache'[SITES_CACHE_KEY] =
                   [value |-> kvStore.value, expiresAt |-> now + MemoryTtlMs]
             /\ Reqs(calls'[c]) = 0

\* C1: a call issues the upstream request only after it found the fast tier
\* without a live entry and the durable tier unconfigured, without a usable
\* list or failing; the tiers are asked in the order fast, durable, upstream;
\* a durable hit writes the fast tier and returns without an upstream request.
C1_UpstreamOnlyOnFullMiss == []C1_TierOrder /\ [][C1_DurableHit]_vars

\* C1 witness: one call is waiting for upstream after an unusable durable
\* read, another has returned the durable tier's list
C1_Witness ==
    \E c, d \in Calls :
       /\ calls[c].pc = "fetch" /\ calls[c].kvSaw = "unusable"
       /\ calls[d].pc = "done" /\ calls[d].log = <<"memory", "kvGet">>

C2_ServedFromFastTier(c) ==
    Fresh => /\ calls'[c].pc = "done"
             /\ calls'[c].sites = memoryCache[SITES_CACHE_KEY].value
             /\ calls'[c].log = <<"memory">>
             /\ memoryCache' = memoryCache

C2_ExpiredIsAbsent(c) ==
    (SITES_CACHE_KEY \in DOMAIN memoryCache /\ now > memoryCache[SITES_CACHE_KEY].expiresAt)
       => /\ calls'[c].pc = "getKv"
          /\ SITES_CACHE_KEY \notin DOMAIN memoryCache'

\* C2 as stated: once a call has returned a list, every later call made while
\* the clock has not passed that entry's expiry returns the same list and asks
\* upstream for nothing; past the expiry the entry counts as absent and the
\* lookup removes it.
C2_RoundTrip ==
    [][\A c \in Calls : getSites_start(c) =>
          /\ \A d \in Calls :
                (calls[d].pc = "done" /\ now <= calls[d].expiresAt)
                   => /\ calls'[c].pc = "done"
                      /\ calls'[c].sites = calls[d].sites
                      /\ Reqs(calls'[c]) = 0
          /\ C2_ExpiredIsAbsent(c)]_vars

\* C2 amended: the later call is always served from the fast tier without an
\* upstream request, and its list is the earlier call's list unless another
\* call, already in flight, has written the fast tier in between.
C2_RoundTripUnlessRewritten ==
    [][\A c \in Calls : getSites_start(c) =>
          /\ \A d \in Calls :
                (calls[d].pc = "done" /\ now <= calls[d].expiresAt)
                   => /\ calls'[c].pc = "done"
                      /\ Reqs(calls'[c]) = 0
                      /\ ~calls[d].stale => calls'[c].sites = calls[d].sites
          /\ C2_ServedFromFastTier(c)
          /\ C2_ExpiredIsAbsent(c)]_vars

\* C2 witness: at the very instant of the entry's expiry a second call has
\* been served the list the first one fetched
C2_Witness ==
    \E c, d \in Calls :
       /\ calls[d].pc = "done" /\ Reqs(calls[d]) = 1 /\ ~calls[d].stale
       /\ calls[c].pc = "done" /\ calls[c].log = <<"memory">>
       /\ calls[c].sites = calls[d].sites
       /\ now = calls[d].expiresAt

C3_Inv ==
    \A c \in Calls :
       /\ calls[c].pc = "failed" => calls[c].log[Len(calls[c].log)] = "api"
       /\ calls[c].kvSaw = "error" => calls[c].pc = "fetch"
       /\ calls[c].kvWrote = "error" => calls[c].pc = "done" /\ Reqs(calls[c]) = 1
       /\ ~hasKvConfig(env) =>
             \A i \in 1..Len(calls[c].log) : calls[c].log[i] \notin {"kvGet", "kvSet"}

C3_Act ==
    \A c \in Calls :
       /\ getSites_kvGet(c) => calls'[c].pc \in {"done", "fetch"}
       /\ getSites_kvSet(c) =>
             /\ calls'[c].pc = "done"
             /\ calls'[c].sites = calls[c].sites
             /\ memoryCache' = memoryCache
       /\ (getSites_fetch(c) /\ calls'[c].pc = "kvSet") =>
             memoryCache'[SITES_CACHE_KEY].value = calls'[c].sites

\* C3: with the durable tier configured, a failed durable read or write never
\* fails the call: after a failed read the call goes on to the upstream fetch,
\* after a failed write it returns the fetched list, the fast tier having been
\* written; without the configuration no durable read or write is attempted.
C3_DurableBestEffort == []C3_Inv /\ [][C3_Act]_vars

\* C3 witness: one call returned after its durable write failed while another
\* waits for upstream after its durable read failed
C3_Witness ==
    \E c, d \in Calls :
       /\ calls[c].pc = "done" /\ calls[c].kvWrote = "error"
       /\ calls[d].pc = "fetch" /\ calls[d].kvSaw = "error"

C4_Inv ==
    \A c \in Calls :
       calls[c].resp = "notOk" =>
          /\ calls[c].pc = "failed"
          /\ calls[c].sites = <<>>
          /\ Reqs(calls[c]) = 1

C4_Act ==
    \A c \in Calls :
       /\ (getSites_fetch(c) /\ calls'[c].resp = "notOk") =>
             /\ memoryCache' = memoryCache
             /\ kvStore' = kvStore
       /\ (getSites_start(c) /\ calls[c].resp = "notOk" /\ ~Fresh) =>
             calls'[c].pc = "getKv"

\* C4: a non-success answer of the sites endpoint ends the call in an error,
\* never in an empty list; the call has issued exactly one upstream request,
\* neither tier is written, and a later call goes down the same path again.
C4_UpstreamFailureIsFatal == []C4_Inv /\ [][C4_Act]_vars

\* C4 witness: a call has failed on a non-success answer
C4_Witness ==
    \E c \in Calls : calls[c].pc = "failed" /\ calls[c].resp = "notOk"

\* C7: every site a fetch produced has a positive siteId and a non-empty,
\* trimmed name.
C7_SiteValidation ==
    \A c \in Calls :
       calls[c].resp = "ok" =>
          \A i \in 1..Len(calls[c].sites) :
             /\ calls[c].sites[i].siteId > 0
             /\ calls[c].sites[i].name # <<>>
             /\ trim(calls[c].sites[i].name) = calls[c].sites[i].name

C10_Inv ==
    /\ DOMAIN memoryCache \subseteq {SITES_CACHE_KEY}
    /\ \A k \in DOMAIN memoryCache :
          /\ DOMAIN memoryCache[k] = {"value", "expiresAt"}
          /\ memoryCache[k].value \in UpstreamLists \cup {KvSeedList}
          /\ memoryCache[k].expiresAt \in Nat
    /\ \A c \in Calls :
          /\ Reqs(calls[c]) <= 1
          /\ calls[c].pc = "done" => calls[c].sites \in UpstreamLists \cup {KvSeedList}

C10_Act ==
    \A c \in Calls :
       /\ (getSites_start(c) /\ calls'[c].pc = "done") =>
             calls'[c].sites = memoryCache[SITES_CACHE_KEY].value
       /\ (getSites_kvGet(c) /\ calls'[c].pc = "done") =>
             /\ calls'[c].sites = kvStore.value
             /\ memoryCache'[SITES_CACHE_KEY] =
                   [value |-> calls'[c].sites, expiresAt |-> now + MemoryTtlMs]
       /\ (getSites_fetch(c) /\ calls'[c].pc # "failed") =>
             /\ calls'[c].sites \in UpstreamLists
             /\ memoryCache'[SITES_CACHE_KEY] =
                   [value |-> calls'[c].sites, expiresAt |-> now + MemoryTtlMs]
       /\ getSites_kvSet(c) => calls'[c].sites = calls[c].sites

\* C10: under every interleaving the fast-tier entry is absent or one whole
\* list with its expiry; a call that returns hands back a whole list taken from
\* the fast tier, the durable tier or an upstream answer; a call issues at most
\* one upstream request; whichever call writes the fast tier last leaves its
\* own list there.
C10_BenignRace == []C10_Inv /\ [][C10_Act]_vars

\* C10 witness: two calls both fetched; the fast tier holds the list of the
\* one that wrote last, which differs from the other's
C10_Witness ==
    \E c, d \in Calls :
       /\ Reqs(calls[c]) = 1 /\ calls[c].pc \in {"kvSet", "done"} /\ calls[c].stale
       /\ Reqs(calls[d]) = 1 /\ calls[d].pc \in {"kvSet", "done"} /\ ~calls[d].stale
       /\ calls[c].sites # calls[d].sites
       /\ SITES_CACHE_KEY \in DOMAIN memoryCache
       /\ memoryCache[SITES_CACHE_KEY].value = calls[d].sites

(***************************************************************************)
(* Properties of the matcher.                                              *)
(***************************************************************************)
\* every site of the catalog with its score and the length of its normalized name
Ranked(catalog, text) ==
    LET normalizedQuery == normalizeText(text)
    IN { [site |-> s,
          score |-> siteScore(normalizeText(s.name), normalizedQuery),
          length |-> Len(normalizeText(s.name))] : s \in Range(catalog) }

\* the ranking: a stands strictly before b
RanksBefore(a, b) ==
    \/ a.score > b.score
    \/ a.score = b.score /\ a.length < b.length
    \/ a.score = b.score /\ a.length = b.length
          /\ localeCompare(a.site.name, b.site.name) < 0

TopOf(entries) ==
    IF entries = {} THEN 0
    ELSE CHOOSE n \in 1..3 : /\ \E e \in entries : e.score = n
                             /\ \A e \in entries : e.score <= n

\* the entries of a list of sites, in the list's order
EntriesOf(list, ranked) ==
    [i \in 1..Len(list) |-> CHOOSE e \in ranked : e.site = list[i]]

InRankingOrder(entries) ==
    \A i, j \in 1..Len(entries) : i < j => ~RanksBefore(entries[j], entries[i])

\* C5: resolveSiteMatch reports "ambiguous" exactly when the top score is at
\* least 2 and at least two sites have it, the candidates being the tied sites
\* in ranking order; it reports no match exactly when no site scores above 0;
\* otherwise it returns the one site that is first in the ranking.
C5_ResolveSiteMatch ==
    match.called =>
       LET m == match.value
           matching == { e \in Ranked(sites, query) : e.score > 0 }
           top == TopOf(matching)
           tied == { e \in matching : e.score = top }
       IN
       /\ m.hasCandidates <=> (top >= 2 /\ Cardinality(tied) >= 2)
       /\ m.hasCandidates =>
             /\ m.site = <<>>
             /\ Range(m.candidates) = { e.site : e \in tied }
             /\ Len(m.candidates) = Cardinality(tied)
             /\ InRankingOrder(EntriesOf(m.candidates, tied))
       /\ (~m.hasCandidates /\ m.site = <<>>) <=> matching = {}
       /\ (~m.hasCandidates /\ matching # {}) =>
             /\ Len(m.site) = 1
             /\ m.candidates = <<>>
             /\ \E first \in tied :
                   /\ first.site = m.site[1]
                   /\ \A e \in matching : ~RanksBefore(e, first)

\* C5 witness: two sites tie at the "contains" level and one of them is returned
C5_Witness ==
    /\ match.called
    /\ LET matching == { e \in Ranked(sites, query) : e.score > 0 }
       IN TopOf(matching) = 1 /\ Cardinality(matching) >= 2
    /\ Len(match.value.site) = 1

\* C6: getSiteCandidates returns at most maxResults sites, each with a
\* normalized name containing the normalized query, in ranking order (score
\* descending, normalized length ascending, name ascending), and they are the
\* head of the full ranking: no site left out stands before a returned one.
C6_GetSiteCandidates ==
    matches.called =>
       LET list == matches.value
           matching == { e \in Ranked(sites, query) : e.score > 0 }
           returned == { e \in matching : e.site \in Range(list) }
       IN
       /\ Len(list) <= maxResults
       /\ Len(list) = IF Cardinality(matching) < maxResults
                      THEN Cardinality(matching) ELSE maxResults
       /\ Cardinality(returned) = Len(list)
       /\ \A i \in 1..Len(list) :
             includes(normalizeText(list[i].name), normalizeText(query))
       /\ InRankingOrder(EntriesOf(list, returned))
       /\ \A left \in matching \ returned : \A e \in returned : ~RanksBefore(left, e)

\* C6 witness: the limit cut the ranking, and the sites returned differ in rank
C6_Witness ==
    /\ matches.called
    /\ Len(matches.value) = maxResults
    /\ LET matching == { e \in Ranked(sites, query) : e.score > 0 }
       IN /\ Cardinality(matching) > maxResults
          /\ \E a, b \in matching :
                /\ a.site \in Range(matches.value)
                /\ b.site \in Range(matches.value)
                /\ RanksBefore(a, b)

(***************************************************************************)
(* Properties of fetchDepartures.                                          *)
(***************************************************************************)
\* the record has a time field that yields a valid instant
YieldsValidInstant(raw) ==
    \E f \in Range(ExpectedFields) \cup Range(ScheduledFields) :
       LET d == parseTimeValue(raw[f]) IN ~d.isNull /\ d.valid

destinationOf(raw) ==
    toText(firstTruthy(<<raw["destination"], raw["direction"], raw["destinationName"]>>))

\* C8: for every list of raw records returned with a success response,
\* fetchDepartures completes without raising, and its output is the input list
\* with exactly those records removed that yield no valid instant from any of
\* their time fields, one Departure per remaining record, in the original order.
C8_UnparseableSkippedNeverRaised ==
    (depResult.called /\ depResponse.ok /\ depResponse.shape \in {"array", "wrapped"})
       => LET remaining == SelectSeq(depResponse.list, YieldsValidInstant)
          IN /\ ~depResult.threw
             /\ Len(depResult.departures) = Len(remaining)
             /\ \A i \in 1..Len(remaining) :
                   depResult.departures[i].destination = destinationOf(remaining[i])

(***************************************************************************)
(* Properties of the tools.                                                *)
(***************************************************************************)
\* C9: every sl_departures call that supplies a station name and no siteId loads
\* the site catalog, runs resolveSiteMatch on the name, and ends resolved (the
\* departures are fetched for the resolved site's siteId), ambiguous (a shortlist
\* is returned, no departures request) or not found (no departures request).
C9_DeparturesByStationName ==
    (/\ request.pc = "done" /\ request.tool = "sl_departures"
     /\ nonEmptyString(request.params.station)
     /\ request.params.siteId.k = "undefined" /\ request.params.id.k = "undefined")
       => /\ request.loadedCatalog
          /\ request.outcome \in {"departures", "no_departures", "ambiguous",
                                  "not_found", "failed"}
          /\ request.outcome \in {"departures", "no_departures", "ambiguous", "not_found"}
                => request.ranMatch
          /\ request.outcome \in {"ambiguous", "not_found"} => request.fetchedFor = <<>>
          /\ request.outcome = "ambiguous" => request.sitesListed # <<>>
          /\ request.outcome \in {"departures", "no_departures"}
                => request.fetchedFor = <<request.resolvedSiteId>>

====
